---- MODULE Spec2Model ----
(***************************************************************************)
(* quickfib: fast-doubling Fibonacci (src/src/lib.rs).                     *)
(*                                                                         *)
(* fibbonacci_range is modelled as a state machine: its loop, the call of  *)
(* fibbonacci for each item, and the recursion of the inner helper __fib   *)
(* with an explicit stack of frames.  The generic numeric type T is a      *)
(* record (lowest value, highest value, overflow policy); its operators    *)
(* are modelled for fixed-width integers whose overflow either panics      *)
(* (overflow checks on) or wraps around (overflow checks off).             *)
(***************************************************************************)
EXTENDS Integers, Sequences, FiniteSets, TLC

VARIABLES ty, input, range, result, pc, cur, stack, ret, loc, calls, fault

vars == <<ty, input, range, result, pc, cur, stack, ret, loc, calls, fault>>

(***************************************************************************)
(* Bounds of the model.                                                    *)
(***************************************************************************)
\* width in bits of the modelled unsigned type
Bits == 8
\* largest magnitude of the first index of an inclusive range lo..=hi
MaxIdx == 255
\* largest number of items of an inclusive range lo..=hi
MaxLen == 3
\* largest magnitude of an index in an arbitrary sequence of at most two
MaxPair == 12
\* largest magnitude of the index of a single call
MaxCall == 63

(***************************************************************************)
(* The numeric types T.                                                    *)
(***************************************************************************)
RECURSIVE Pow2(_)
Pow2(e) == IF e = 0 THEN 1 ELSE 2 * Pow2(e - 1)

UWrap == [name |-> "uW", min |-> 0, max |-> Pow2(Bits) - 1, checked |-> FALSE]
UChecked == [name |-> "uW", min |-> 0, max |-> Pow2(Bits) - 1, checked |-> TRUE]
I16Wrap == [name |-> "i16", min |-> -32768, max |-> 32767, checked |-> FALSE]
I16Checked == [name |-> "i16", min |-> -32768, max |-> 32767, checked |-> TRUE]
I32Checked ==
    [name |-> "i32", min |-> -2147483647 - 1, max |-> 2147483647, checked |-> TRUE]

Types == {UWrap, UChecked, I16Wrap, I16Checked, I32Checked}

\* number of values of a type (used for the wrapping types only)
Modulus(t) == t.max - t.min + 1

\* two's-complement reduction of an integer into the type
Wrap(t, x) == ((x - t.min) % Modulus(t)) + t.min

\* whether a + b, a - b, a * b lie in the type, decided without leaving
\* the range of the operands
AddFits(t, a, b) == IF b >= 0 THEN a <= t.max - b ELSE a >= t.min - b

SubFits(t, a, b) == IF b >= 0 THEN a >= t.min + b ELSE a <= t.max + b

MulFits(t, a, b) ==
    IF a = 0 \/ b = 0 THEN TRUE
    ELSE IF a > 0 /\ b > 0 THEN a <= t.max \div b
    ELSE IF a < 0 /\ b < 0 THEN (-a) <= t.max \div (-b)
    ELSE IF t.min = 0 THEN FALSE
    ELSE LET p == IF a > 0 THEN a ELSE b
             q == IF a > 0 THEN -b ELSE -a
             lim == (t.max \div p) + (IF t.max % p = p - 1 THEN 1 ELSE 0)
         IN  q <= lim

(***************************************************************************)
(* A value under evaluation: v is the value, f the first operation of the  *)
(* expression that overflowed ("none" when none did).  With overflow       *)
(* checks the evaluation stops at f (v is then unused); without them the   *)
(* value wraps and evaluation goes on.                                     *)
(***************************************************************************)
From(n) == [v |-> n, f |-> "none"]

First(x, y, fits, op) ==
    IF x.f # "none" THEN x.f
    ELSE IF y.f # "none" THEN y.f
    ELSE IF fits THEN "none" ELSE op

Usable(x, y) == x.f = "none" /\ y.f = "none"

TAdd(t, x, y) ==
    LET fits == AddFits(t, x.v, y.v)
    IN  [v |-> IF t.checked
               THEN (IF Usable(x, y) /\ fits THEN x.v + y.v ELSE 0)
               ELSE Wrap(t, x.v + y.v),
         f |-> First(x, y, fits, "add")]

\* a subtraction that saturates at the lowest value instead of wrapping
TSubSaturating(t, x, y) ==
    LET fits == SubFits(t, x.v, y.v)
    IN  [v |-> IF t.checked
               THEN (IF Usable(x, y) /\ fits THEN x.v - y.v ELSE 0)
               ELSE (IF fits THEN x.v - y.v ELSE t.min),
         f |-> First(x, y, fits, "sub")]

TSub(t, x, y) ==
    LET fits == SubFits(t, x.v, y.v)
    IN  [v |-> IF t.checked
               THEN (IF Usable(x, y) /\ fits THEN x.v - y.v ELSE 0)
               ELSE Wrap(t, x.v - y.v),
         f |-> First(x, y, fits, "sub")]

TMul(t, x, y) ==
    LET fits == MulFits(t, x.v, y.v)
    IN  [v |-> IF t.checked
               THEN (IF Usable(x, y) /\ fits THEN x.v * y.v ELSE 0)
               ELSE Wrap(t, x.v * y.v),
         f |-> First(x, y, fits, "mul")]

\* n / 2 and n % 2 of Rust's integers: the quotient truncates toward zero
\* and the remainder takes the sign of n
\* a step of one toward zero instead of a halving
Decrement(n) == IF n > 0 THEN n - 1 ELSE IF n < 0 THEN n + 1 ELSE 0

Div2(n) == IF n >= 0 THEN n \div 2 ELSE -((-n) \div 2)

Rem2(n) == IF n >= 0 THEN n % 2 ELSE -((-n) % 2)

(***************************************************************************)
(* __fib                                                                   *)
(***************************************************************************)
IsBase(n) == n = 0

\* the base pair with its components exchanged
BasePairSwapped == [a |-> 1, b |-> 0]

BasePair == [a |-> 0, b |-> 1]

\* a parity test that takes every remainder other than 1 for even
IsEvenNotOne(n) == Rem2(n) # 1

IsEven(n) == Rem2(n) = 0

\* c with the sign of a exchanged: a * ((b * 2) + a)
ExprCPlus(t, a, b) ==
    TMul(t, From(a), TAdd(t, TMul(t, From(b), From(2)), From(a)))

\* let c = a * ((b * T::from(2)) - a);
ExprC(t, a, b) == TMul(t, From(a), TSub(t, TMul(t, From(b), From(2)), From(a)))

\* d with a factor exchanged: a * b + b * b
ExprDCross(t, a, b) ==
    TAdd(t, TMul(t, From(a), From(b)), TMul(t, From(b), From(b)))

\* let d = a * a + b * b;
ExprD(t, a, b) == TAdd(t, TMul(t, From(a), From(a)), TMul(t, From(b), From(b)))

\* the pair returned by the recursive case, as values under evaluation
RetPair(t, n, c, d) ==
    IF IsEven(n) THEN [a |-> c, b |-> d] ELSE [a |-> d, b |-> TAdd(t, c, d)]

\* the first overflow of the frame: c, then d, then c + d
FrameFault(t, n, c, d) ==
    IF c.f # "none" THEN c.f
    ELSE IF d.f # "none" THEN d.f
    ELSE RetPair(t, n, c, d).b.f

\* __fib(n) as a function of n: the returned pair and the first overflow
\* of the whole recursion ("none" when none); with overflow checks nothing
\* is computed after an overflow
RECURSIVE Fib(_, _)
Fib(t, n) ==
    IF IsBase(n) THEN [a |-> BasePair.a, b |-> BasePair.b, f |-> "none"]
    ELSE LET r == Fib(t, Div2(n))
             c == ExprC(t, r.a, r.b)
             d == ExprD(t, r.a, r.b)
             p == RetPair(t, n, c, d)
             f == FrameFault(t, n, c, d)
         IN  IF t.checked /\ r.f # "none" THEN r
             ELSE IF t.checked /\ f # "none" THEN [a |-> 0, b |-> 0, f |-> f]
             ELSE [a |-> p.a.v, b |-> p.b.v, f |-> IF r.f # "none" THEN r.f ELSE f]

\* fibbonacci(n) = __fib(n).0; panics says whether the call panics instead
fibbonacci(t, n) == Fib(t, n).a

Panics(t, n) == t.checked /\ Fib(t, n).f # "none"

(***************************************************************************)
(* The inputs.                                                             *)
(***************************************************************************)
Min2(x, y) == IF x <= y THEN x ELSE y

Max2(x, y) == IF x >= y THEN x ELSE y

\* the values of the type of magnitude at most m
Idx(t, m) == Max2(t.min, -m) .. Min2(t.max, m)

\* the inclusive range lo..=hi as the sequence of its items
Inclusive(lo, hi) == [i \in 1 .. (hi - lo + 1) |-> lo + i - 1]

\* the range of the crate's test and doc example, 0..=9
TestRange == Inclusive(0, 9)

Inputs(t) ==
    {Inclusive(lo, Min2(lo + MaxLen - 1, Min2(t.max, MaxIdx))) : lo \in Idx(t, MaxIdx)}
    \cup UNION {[1 .. l -> Idx(t, MaxPair)] : l \in 0 .. 2}
    \cup {TestRange}

\* a single index n: the run is the call fibbonacci(n)
CallInputs(t) == {<<n>> : n \in Idx(t, MaxCall)}

(***************************************************************************)
(* The state machine.                                                      *)
(***************************************************************************)
Start(t, s) ==
    /\ ty = t
    /\ input = s
    /\ range = s
    /\ result = <<>>
    /\ pc = "loop"
    /\ cur = 0
    /\ stack = <<>>
    /\ ret = [k |-> 0, a |-> 0, b |-> 0]
    /\ loc = [c |-> 0, d |-> 0]
    /\ calls = 0
    /\ fault = "none"

Init == \E t \in Types : \E s \in Inputs(t) : Start(t, s)

InitCall == \E t \in Types : \E s \in CallInputs(t) : Start(t, s)

Top == stack[Len(stack)]

Pop == SubSeq(stack, 1, Len(stack) - 1)

\* the value is put in front of the vector instead of behind it
PushFront(r, v) == <<v>> \o r

PushResult(r, v) == Append(r, v)

\* for i in range { ... fibbonacci(i) ... }: the next item is taken and
\* fibbonacci calls __fib(n)
LoopNext ==
    /\ pc = "loop"
    /\ range # <<>>
    /\ cur' = Head(range)
    /\ range' = Tail(range)
    /\ stack' = <<Head(range)>>
    /\ calls' = 0
    /\ fault' = "none"
    /\ pc' = "call"
    /\ UNCHANGED <<ty, input, result, ret, loc>>

\* the iterator is exhausted: the vector is returned
LoopEnd ==
    /\ pc = "loop"
    /\ range = <<>>
    /\ pc' = "done"
    /\ UNCHANGED <<ty, input, range, result, cur, stack, ret, loc, calls, fault>>

\* n != 0: the frame calls __fib(n / 2)
Recurse ==
    /\ pc = "call"
    /\ ~IsBase(Top)
    /\ stack' = Append(stack, Div2(Top))
    /\ calls' = calls + 1
    /\ UNCHANGED <<ty, input, range, result, pc, cur, ret, loc, fault>>

\* n == 0: the frame returns (0, 1)
Base ==
    /\ pc = "call"
    /\ IsBase(Top)
    /\ ret' = [k |-> Top, a |-> BasePair.a, b |-> BasePair.b]
    /\ stack' = Pop
    /\ pc' = "ret"
    /\ UNCHANGED <<ty, input, range, result, cur, loc, calls, fault>>

\* the recursive call has returned (a, b) to the frame of n: c, d and the
\* returned pair are computed; with overflow checks the first overflow
\* panics, without them the values have wrapped
Unwind ==
    /\ pc = "ret"
    /\ stack # <<>>
    /\ LET n == Top
           c == ExprC(ty, ret.a, ret.b)
           d == ExprD(ty, ret.a, ret.b)
           p == RetPair(ty, n, c, d)
           f == FrameFault(ty, n, c, d)
       IN  /\ ~(ty.checked /\ f # "none")
           /\ loc' = [c |-> c.v, d |-> d.v]
           /\ ret' = [k |-> n, a |-> p.a.v, b |-> p.b.v]
           /\ fault' = IF fault # "none" THEN fault ELSE f
    /\ stack' = Pop
    /\ UNCHANGED <<ty, input, range, result, pc, cur, calls>>

Overflow ==
    /\ pc = "ret"
    /\ stack # <<>>
    /\ LET n == Top
           c == ExprC(ty, ret.a, ret.b)
           d == ExprD(ty, ret.a, ret.b)
           f == FrameFault(ty, n, c, d)
       IN  /\ ty.checked /\ f # "none"
           /\ fault' = f
    /\ pc' = "panic"
    /\ UNCHANGED <<ty, input, range, result, cur, stack, ret, loc, calls>>

\* __fib(n).0 is returned by fibbonacci and pushed onto the vector
Push ==
    /\ pc = "ret"
    /\ stack = <<>>
    /\ result' = PushResult(result, ret.a)
    /\ pc' = "loop"
    /\ UNCHANGED <<ty, input, range, cur, stack, ret, loc, calls, fault>>

Next == LoopNext \/ LoopEnd \/ Recurse \/ Base \/ Unwind \/ Overflow \/ Push

Spec == Init /\ [][Next]_vars

\* the program is sequential: a step that can be taken is taken
FairSpec == InitCall /\ [][Next]_vars /\ WF_vars(Next)

(***************************************************************************)
(* The reference sequence F(0) = 0, F(1) = 1, F(k) = F(k-1) + F(k-2),      *)
(* computed term by term.  A term above RefCap, the largest value any      *)
(* modelled type holds, is given as -1; FitsIn says that F(n) is a value   *)
(* of the type.  FMod is the sequence modulo m.                            *)
(***************************************************************************)
RefCap == I32Checked.max

SatAdd(x, y) == IF x = -1 \/ y = -1 \/ x > RefCap - y THEN -1 ELSE x + y

\* from (F(i), F(i+1)) to F(n), term by term; once above RefCap, always
RECURSIVE RefFrom(_, _, _, _)
RefFrom(i, n, a, b) ==
    IF i = n \/ a = -1 THEN a ELSE RefFrom(i + 1, n, b, SatAdd(a, b))

F(n) == RefFrom(0, n, 0, 1)

FitsIn(t, n) == F(n) # -1 /\ F(n) <= t.max

RECURSIVE RefPairMod(_, _)
RefPairMod(n, m) ==
    IF n = 0 THEN <<0, 1 % m>>
    ELSE LET p == RefPairMod(n - 1, m) IN <<p[2], (p[1] + p[2]) % m>>

FMod(n, m) == RefPairMod(n, m)[1]

\* the decimal digits of F(100) = 354224848179261915075 and their value
\* modulo m
F100Digits == <<3, 5, 4, 2, 2, 4, 8, 4, 8, 1, 7, 9, 2, 6, 1, 9, 1, 5, 0, 7, 5>>

RECURSIVE DecMod(_, _)
DecMod(ds, m) ==
    IF ds = <<>> THEN 0
    ELSE (10 * DecMod(SubSeq(ds, 1, Len(ds) - 1), m) + ds[Len(ds)]) % m

\* the number of bits of n >= 0: the least b with n < 2^b
RECURSIVE LeastBits(_, _)
LeastBits(n, b) == IF n < Pow2(b) THEN b ELSE LeastBits(n, b + 1)

BitLength(n) == LeastBits(n, 0)

\* fibbonacci(cur) has returned: __fib(cur) has handed its pair to fibbonacci
CallReturned == pc = "ret" /\ stack = <<>>

\* no operation of the current call has overflowed
Exact == fault = "none"

(***************************************************************************)
(* C1: for every index n >= 0, whenever no operation of the call           *)
(* overflows T, fibbonacci(n) returns F(n); in particular fibbonacci(0) =  *)
(* 0, fibbonacci(1) = 1, fibbonacci(2) = 1, fibbonacci(20) = 6765 and      *)
(* fibbonacci(30) = 832040.  fibbonacci(100) = 354224848179261915075       *)
(* exceeds the modelled widths: it is checked modulo the width of the      *)
(* wrapping types, whose run of fibbonacci(100) is the low bits of the     *)
(* 128-bit run.                                                            *)
(***************************************************************************)
C1_ReturnsFn ==
    /\ (CallReturned /\ cur >= 0 /\ Exact) =>
          /\ ret.a = F(cur)
          /\ (cur = 0 => ret.a = 0)
          /\ (cur = 1 => ret.a = 1)
          /\ (cur = 2 => ret.a = 1)
          /\ (cur = 20 => ret.a = 6765)
          /\ (cur = 30 => ret.a = 832040)
    /\ (CallReturned /\ cur = 100 /\ ~ty.checked) =>
          ret.a = Wrap(ty, DecMod(F100Digits, Modulus(ty)))

C1_Witness ==
    /\ CallReturned /\ Exact
    /\ ty = I32Checked /\ cur = 30 /\ ret.a = 832040

(***************************************************************************)
(* C2: for a type whose arithmetic panics on overflow and every n >= 0     *)
(* with F(n) <= MAX(T), fibbonacci(n) does not panic: an overflow occurs   *)
(* only when T cannot hold F(n) itself.                                    *)
(***************************************************************************)
C2_NoPanicWhenResultFits ==
    (ty.checked /\ pc = "panic" /\ cur >= 0) => ~FitsIn(ty, cur)

(***************************************************************************)
(* C3: at every step of fibbonacci_range the vector built so far is the    *)
(* image under fibbonacci of the consumed prefix of the input, in order;   *)
(* the returned vector has the length of the input; and                    *)
(* fibbonacci_range(0..=9) = [0, 1, 1, 2, 3, 5, 8, 13, 21, 34].            *)
(***************************************************************************)
Consumed == Len(input) - Len(range)

C3_RangeIsImage ==
    /\ Len(result) = IF pc \in {"loop", "done"} THEN Consumed ELSE Consumed - 1
    /\ \A i \in 1 .. Len(result) :
          /\ ~Panics(ty, input[i])
          /\ result[i] = fibbonacci(ty, input[i])
    /\ pc = "done" => Len(result) = Len(input)
    /\ (pc = "done" /\ input = TestRange) =>
          result = <<0, 1, 1, 2, 3, 5, 8, 13, 21, 34>>

C3_Witness ==
    /\ pc = "done" /\ input = TestRange /\ ty = I32Checked
    /\ result = <<0, 1, 1, 2, 3, 5, 8, 13, 21, 34>>

(***************************************************************************)
(* C4: for every n >= 0 the call fibbonacci(n) terminates: each recursive  *)
(* call is made on n / 2, which is non-negative and strictly smaller than  *)
(* n, the base case is reached after exactly one recursive call per bit    *)
(* of n (none for n = 0), and the call then returns or panics.             *)
(***************************************************************************)
C4_Terminates ==
    /\ [][(pc = "call" /\ pc' = "call" /\ cur >= 0) =>
             /\ Len(stack') = Len(stack) + 1
             /\ 0 <= stack'[Len(stack')]
             /\ stack'[Len(stack')] < Top]_vars
    /\ []((pc = "ret" /\ cur >= 0) => calls = BitLength(cur))
    /\ []((pc = "call" /\ cur >= 0) => calls = Len(stack) - 1)
    /\ ((pc = "call" /\ cur >= 0) ~> (CallReturned \/ pc = "panic"))

C4_Witness ==
    /\ CallReturned /\ ty = UWrap
    /\ cur = MaxCall /\ calls = BitLength(MaxCall) /\ calls > 1

(***************************************************************************)
(* C5: recurrence.  For three independent calls on n-2, n-1 and n with     *)
(* n >= 2 whose results F(n-2), F(n-1), F(n) fit in T, the calls return    *)
(* and fibbonacci(n) = fibbonacci(n-1) + fibbonacci(n-2).                  *)
(***************************************************************************)
ResultsFit == \A i \in 1 .. Len(input) : input[i] >= 0 /\ FitsIn(ty, input[i])

C5_Recurrence ==
    (/\ Len(input) = 3
     /\ input[2] = input[1] + 1
     /\ input[3] = input[1] + 2
     /\ ResultsFit)
    => /\ pc # "panic"
       /\ pc = "done" => result[3] = result[2] + result[1]

(***************************************************************************)
(* C6: monotonicity.  For calls on non-negative n1 < n2 whose results fit  *)
(* in T, the calls return and fibbonacci(n1) <= fibbonacci(n2).            *)
(***************************************************************************)
C6_Monotone ==
    ResultsFit
    => /\ pc # "panic"
       /\ \A i, j \in 1 .. Len(result) :
             input[i] < input[j] => result[i] <= result[j]

(***************************************************************************)
(* C7: as long as nothing has overflowed, every invocation __fib(k) with   *)
(* k >= 0 returns (F(k), F(k+1)); in the recursive case c = F(2*(k/2)),    *)
(* d = F(2*(k/2) + 1), and the pair returned is (c, d) for even k and      *)
(* (d, c + d) for odd k.                                                   *)
(***************************************************************************)
C7_PairInvariant ==
    (pc = "ret" /\ ret.k >= 0 /\ Exact) =>
       /\ ret.a = F(ret.k)
       /\ ret.b = F(ret.k + 1)
       /\ ret.k # 0 =>
            /\ loc.c = F(2 * (ret.k \div 2))
            /\ loc.d = F(2 * (ret.k \div 2) + 1)
            /\ (ret.k % 2 = 0 => ret.a = loc.c /\ ret.b = loc.d)
            /\ (ret.k % 2 = 1 => ret.a = loc.d /\ ret.b = loc.c + loc.d)

C7_Witness ==
    /\ pc = "ret" /\ Exact /\ stack # <<>>
    /\ ret.k = 5 /\ ret.a = 5 /\ ret.b = 8 /\ loc.c = 3 /\ loc.d = 5

(***************************************************************************)
(* C8: on the unsigned type with wraparound, for every index n of the      *)
(* type, fibbonacci(n) returns F(n) mod 2^w, whatever has overflowed in    *)
(* the products, sums and differences of the recursion.                    *)
(***************************************************************************)
C8_WrapIsModular ==
    (CallReturned /\ ty = UWrap) => ret.a = FMod(cur, Modulus(ty))

C8_Witness ==
    /\ CallReturned /\ ty = UWrap /\ cur = ty.max
    /\ ~Exact /\ ~FitsIn(ty, cur)

(***************************************************************************)
(* C9: on a signed type, for every negative n, fibbonacci(n) terminates    *)
(* after as many recursive calls as fibbonacci(-n) and ends as             *)
(* fibbonacci(-n) does: it panics exactly when fibbonacci(-n) panics, and  *)
(* otherwise returns the value fibbonacci(-n) returns, which is F(|n|)     *)
(* when nothing has overflowed.                                            *)
(***************************************************************************)
C9_NegativeIndex ==
    /\ []((pc = "ret" /\ cur < 0) => calls = BitLength(-cur))
    /\ []((CallReturned /\ cur < 0) =>
             /\ ~Panics(ty, -cur)
             /\ ret.a = fibbonacci(ty, -cur)
             /\ Exact => ret.a = F(-cur))
    /\ []((pc = "panic" /\ cur < 0) => Panics(ty, -cur))
    /\ ((pc = "call" /\ cur < 0) ~> (CallReturned \/ pc = "panic"))

C9_Witness ==
    /\ CallReturned /\ ty = I16Checked /\ Exact
    /\ cur = -7 /\ calls = 3 /\ ret.a = 13

(***************************************************************************)
(* C10 as stated: for every k >= 0 every pair (a, b) returned by an        *)
(* invocation of __fib satisfies 0 <= a <= b, and the subtraction          *)
(* (b * 2) - a computed from it is never negative.                         *)
(***************************************************************************)
\* the difference (b * 2) - a the frame on top of the stack computes from
\* the returned pair, before it is reduced into the type
Difference == TMul(ty, From(ret.b), From(2)).v - ret.a

DifferenceComputed ==
    stack # <<>> /\ (ty.checked => TMul(ty, From(ret.b), From(2)).f = "none")

\* b * 2 has not overflowed
DoubleExact == TMul(ty, From(ret.b), From(2)).f = "none"

C10_PairOrdered ==
    (pc = "ret" /\ ret.k >= 0) =>
       /\ 0 <= ret.a /\ ret.a <= ret.b
       /\ DifferenceComputed => Difference >= 0

(***************************************************************************)
(* C10 amended: as long as no operation of the call has overflowed, every  *)
(* pair (a, b) returned for k >= 0 satisfies 0 <= a <= b and, b * 2 not    *)
(* overflowing either, (b * 2) - a is not negative; hence the subtraction  *)
(* is never the first operation of a call to overflow.                     *)
(***************************************************************************)
C10_PairOrderedWhileExact ==
    /\ (pc = "ret" /\ ret.k >= 0 /\ Exact) =>
          /\ 0 <= ret.a /\ ret.a <= ret.b
          /\ (DifferenceComputed /\ DoubleExact) => Difference >= 0
    /\ fault # "sub"

C10_Witness ==
    /\ pc = "ret" /\ Exact /\ stack # <<>> /\ ty = UChecked
    /\ ret.k = 6 /\ ret.a = 8 /\ ret.b = 13 /\ Difference = 18

====
